---- MODULE Spec2Model ----
(***************************************************************************)
(* State-machine model of the square tree maze generator                   *)
(* (src/mazes/square_maze.py, class SquareMaze).                           *)
(*                                                                         *)
(* The state is the generator object plus the two process-global random    *)
(* sources it draws from (the `random` module and `numpy.random`).  Init   *)
(* is the state after SquareMaze.__init__, and one action each models      *)
(* expand(), build() and build_and_animate().  Every random draw of the    *)
(* code is taken from a seeded stream, so that one (configuration, seed)   *)
(* pair is one run of the program; the configurations and seeds are drawn  *)
(* from small sets.                                                        *)
(***************************************************************************)
EXTENDS Integers, Sequences, FiniteSets, TLC

VARIABLES
    width,       \* self.__width
    height,      \* self.__height
    strategy,    \* self.__strategy
    rate,        \* self.__rate, in tenths (10 is 1.0)
    maze,        \* self.__maze: [<<x, y>> -> raw tree id, 0 = unoccupied]
    trees,       \* self.__trees: live tree id -> frontier list
    mappings,    \* self.__mappings: raw tree id -> canonical tree id
    entry,       \* self.__entry: None or <<x, y>>
    exit,        \* self.__exit: None or <<x, y>>
    pyRandom,    \* state of the `random` module (random.sample)
    npRandom,    \* state of numpy.random (rand, randint)
    call,        \* the public method called last
    outcome,     \* what the last call gave its caller
    iterations,  \* __build_iteration runs started with a live tree
    errors,      \* calls in which __build_iteration raised so far
    frames,      \* images the last call appended (build_and_animate() only)
    saved,       \* imageio.mimsave returned in the last call
    steps,       \* history: the positions the last call processed, in order
    grown,       \* history: the trees the last call grew, in order
    consumed     \* history: every position popped from a frontier so far

vars == <<width, height, strategy, rate, maze, trees, mappings, entry, exit,
          pyRandom, npRandom, call, outcome, iterations, errors, frames, saved,
          steps, grown, consumed>>

-----------------------------------------------------------------------------
(* Bounds of the exploration                                               *)

MaxPySeed == 2
MaxNpSeed == 2

\* build() is explored when it returns within this many iterations
MaxBuildIterations == 40

\* (width, height, n_trees, rate argument in tenths) of the explored runs
Configs ==
    { <<9, 9, 1, 1>>, <<9, 9, 1, 10>>, <<9, 9, 1, 0>>, <<9, 9, 0, 10>>,
      <<8, 9, 1, 10>>, <<9, 8, 1, 10>>, <<14, 9, 2, 10>>, <<14, 9, 1, 10>>,
      <<10, 10, 1, 10>>, <<10, 10, 2, 10>>,
      <<14, 14, 2, 10>>, <<14, 14, 2, 5>>, <<14, 19, 2, 10>>,
      <<19, 19, 3, 10>> }

\* the three BranchingStrategy values and a value that is none of them
Strategies == {"Random", "Partial", "Full", "Other"}

\* a run explored beside those of the seeds 1..MaxPySeed and 1..MaxNpSeed:
\* (configuration, strategy, seed of random, seed of numpy.random)
FurtherRuns == { << <<19, 19, 3, 5>>, "Random", 60, 40 >> }

\* the explored runs
Runs ==
    {<<c, st, sp, sn>> : c \in Configs, st \in Strategies,
                         sp \in 1..MaxPySeed, sn \in 1..MaxNpSeed}
        \cup FurtherRuns

None == <<>>

-----------------------------------------------------------------------------
(* The random sources.  A Lehmer generator stands for the generator state; *)
(* a draw advances the state and scales it to the range asked for.         *)

NextRandom(x) == (318 * x) % 1009

\* an integer in 0 .. n-1 from the advanced state x
RandBelow(x, n) == (x * n) \div 1009

\* np.random.rand(1)[0] < rate, with the rate in tenths
BelowRate(x, r) == x * 10 < r * 1009

RECURSIVE SampleLoop(_, _, _, _, _, _)
SampleLoop(pool, n, i, k, py, result) ==
    IF i = k THEN [out |-> result, py |-> py]
    ELSE LET x == NextRandom(py)
             j == RandBelow(x, n - i) + 1
         IN  SampleLoop([pool EXCEPT ![j] = pool[n - i]], n, i + 1, k, x,
                        Append(result, pool[j]))

\* random.sample(population, k): k draws without replacement, in draw order
Sample(population, k, py) ==
    IF k > Len(population) \/ k < 0
    THEN [out |-> <<>>, py |-> py, raised |-> "ValueError"]
    ELSE LET r == SampleLoop(population, Len(population), 0, k, py, <<>>)
         IN  [out |-> r.out, py |-> r.py, raised |-> ""]

-----------------------------------------------------------------------------
(* Construction: SquareMaze.__init__                                       *)

\* [i for i in range(n)], empty when n <= 0
Range(n) == [i \in 1..n |-> i - 1]

\* the clusters spaced by their own width: 3 cells instead of 5
SeedCellsDense(v) ==
    LET cx == 2 + v[1] * 3
        cy == 2 + v[2] * 3
    IN  << <<cx - 1, cy>>, <<cx, cy>>, <<cx + 1, cy>>,
           <<cx, cy - 1>>, <<cx, cy + 1>> >>

\* the five cells of the seed cluster whose sampled grid slot is v
SeedCells(v) ==
    LET cx == 2 + v[1] * 5
        cy == 2 + v[2] * 5
    IN  << <<cx - 1, cy>>, <<cx, cy>>, <<cx + 1, cy>>,
           <<cx, cy - 1>>, <<cx, cy + 1>> >>

\* the generator after __init__(w, h, n, r, strategy), the random module
\* being in state py; raised = "ValueError" when random.sample refuses
Construct(w, h, n, py) ==
    LET sx == Sample(Range((w - 4) \div 5), n, py)
        sy == Sample(Range((h - 4) \div 5), n, sx.py)
        zeros == [p \in (0..(w - 1)) \X (0..(h - 1)) |-> 0]
        cells(i) == SeedCells(<<sx.out[i], sy.out[i]>>)
        paints(i, p) == \E k \in 1..5 : cells(i)[k] = p
        \* the loop paints tree 1 first: the last tree to paint a cell owns it
        owner(p) == CHOOSE i \in 1..n :
                        paints(i, p) /\ \A j \in (i + 1)..n : ~paints(j, p)
        painted == {cells(i)[k] : i \in 1..n, k \in 1..5}
    IN  IF sx.raised # "" THEN
            [raised |-> sx.raised, py |-> sx.py, maze |-> zeros,
             trees |-> << >>, mappings |-> [i \in 1..n |-> i]]
        ELSE IF sy.raised # "" THEN
            [raised |-> sy.raised, py |-> sy.py, maze |-> zeros,
             trees |-> << >>, mappings |-> [i \in 1..n |-> i]]
        ELSE
            [raised |-> "", py |-> sy.py,
             maze |-> [p \in DOMAIN zeros |->
                          IF p \in painted THEN owner(p) ELSE 0],
             trees |-> [i \in 1..n |-> cells(i)],
             mappings |-> [i \in 1..n |-> i]]

-----------------------------------------------------------------------------
(* The generator while a call runs.  A record g carries the fields a call  *)
(* changes: maze, trees, mappings, entry, exit, the two random states py   *)
(* and np, and raised, the exception in flight ("" when there is none).    *)

\* numpy index: a negative index counts from the end
Index(i, dim) == IF i < 0 THEN i + dim ELSE i

Cell(g, x, y) == g.maze[<<Index(x, width), Index(y, height)>>]

\* a toggle instead of a write: activating an occupied cell clears it
ActivateToggle(g, x, y, tree) ==
    [g EXCEPT !.maze[<<Index(x, width), Index(y, height)>>] =
                  IF @ # 0 THEN 0 ELSE tree]

\* __activate: self.__maze[x, y] = tree
Activate(g, x, y, tree) ==
    [g EXCEPT !.maze[<<Index(x, width), Index(y, height)>>] = tree]

\* the cell itself tested, not the row of 3 around it
CheckRowCentre(g, x, y) == Cell(g, x, y) = 0

\* __check_row: the row of 3 at column x around y is free
CheckRow(g, x, y) == \A i \in {-1, 0, 1} : Cell(g, x, y + i) = 0

\* __check_col: the column of 3 at row y around x is free
CheckCol(g, x, y) == \A i \in {-1, 0, 1} : Cell(g, x + i, y) = 0

\* only tree1's own entry rewritten, the ids merged into it earlier left
RemapOwnEntry(g, tree1, tree2) ==
    IF tree1 \notin DOMAIN g.trees THEN g
    ELSE LET m == [g.mappings EXCEPT ![tree1] = tree2]
         IN  IF tree2 \notin DOMAIN g.trees
             THEN [g EXCEPT !.mappings = m, !.raised = "KeyError"]
             ELSE [g EXCEPT !.mappings = m,
                            !.trees = [k \in DOMAIN g.trees \ {tree1} |->
                                         IF k = tree2
                                         THEN g.trees[tree2] \o g.trees[tree1]
                                         ELSE g.trees[k]]]

\* __remap without the deletion of tree1
RemapKeepsSource(g, tree1, tree2) ==
    IF tree1 \notin DOMAIN g.trees THEN g
    ELSE LET m == [k \in DOMAIN g.mappings |->
                     IF k = tree1 \/ g.mappings[k] = tree1
                     THEN tree2 ELSE g.mappings[k]]
         IN  IF tree2 \notin DOMAIN g.trees
             THEN [g EXCEPT !.mappings = m, !.raised = "KeyError"]
             ELSE [g EXCEPT !.mappings = m,
                            !.trees[tree2] = g.trees[tree2] \o g.trees[tree1]]

\* __remap: tree1 joins tree2
Remap(g, tree1, tree2) ==
    IF tree1 \notin DOMAIN g.trees THEN g
    ELSE LET m == [k \in DOMAIN g.mappings |->
                     IF k = tree1 \/ g.mappings[k] = tree1
                     THEN tree2 ELSE g.mappings[k]]
         IN  IF tree2 \notin DOMAIN g.trees
             THEN [g EXCEPT !.mappings = m, !.raised = "KeyError"]
             ELSE [g EXCEPT !.mappings = m,
                            !.trees = [k \in DOMAIN g.trees \ {tree1} |->
                                         IF k = tree2
                                         THEN g.trees[tree2] \o g.trees[tree1]
                                         ELSE g.trees[k]]]

\* self.__mappings.get(m, tree)
MainTree(g, m, tree) ==
    IF m \in DOMAIN g.mappings THEN g.mappings[m] ELSE tree

\* the first non-zero value of a window read before anything is written
FirstOccupied(window) ==
    IF window[1] # 0 THEN window[1]
    ELSE IF window[2] # 0 THEN window[2]
    ELSE window[3]

\* history of a bridging: g is the generator before it, r after it; the two
\* bridge cells were activated for tree and __remap(tree, main) was called
Joined(g, r, b1, b2, tree, main) ==
    [r EXCEPT !.joins = Append(@,
        [tree |-> tree, main |-> main, cells |-> <<b1, b2>>,
         before |-> [trees |-> g.trees, mappings |-> g.mappings],
         after |-> [trees |-> r.trees, mappings |-> r.mappings],
         raised |-> r.raised # ""])]

\* the loop body shared by __check_and_join_row and __check_and_join_col:
\* window is the row or column two cells ahead, b1 and b2 the bridge cells
CheckAndJoin(g, window, b1, b2, tree) ==
    LET m == FirstOccupied(window)
    IN  IF m = 0 THEN [g |-> g, free |-> TRUE]
        ELSE IF MainTree(g, m, tree) # tree
        THEN [g |-> Joined(g,
                           Remap(Activate(Activate(g, b1[1], b1[2], tree),
                                          b2[1], b2[2], tree),
                                 tree, MainTree(g, m, tree)),
                           b1, b2, tree, MainTree(g, m, tree)),
              free |-> FALSE]
        ELSE [g |-> g, free |-> FALSE]

\* __check_and_join_row
CheckAndJoinRow(g, x, y, tree, increment) ==
    CheckAndJoin(g,
                 [i \in 1..3 |-> Cell(g, x + 2 * increment, y + i - 2)],
                 <<x + increment, y>>, <<x + 2 * increment, y>>, tree)

\* __check_and_join_col
CheckAndJoinCol(g, x, y, tree, increment) ==
    CheckAndJoin(g,
                 [i \in 1..3 |-> Cell(g, x + i - 2, y + 2 * increment)],
                 <<x, y + increment>>, <<x, y + 2 * increment>>, tree)

\* the exit guard dropped: every position next to the right edge sets it
ExitUnsetAlways(g) == TRUE

\* the exit guard inverted: no position ever sets the exit
ExitUnsetNever(g) == FALSE

\* `self.__exit is None` and `self.__entry is None` in __free_spots
ExitUnset(g) == g.exit = None

EntryUnset(g) == g.entry = None

\* one direction of __free_spots: when the window one cell ahead is free
\* (guard), two cells ahead are checked and maybe joined (joined), and the
\* slot is offered when they are free too
Direction(r, guard, joined, slot) ==
    IF r.g.raised # "" \/ ~guard THEN r
    ELSE [g |-> joined.g,
          slots |-> IF joined.free /\ joined.g.raised = ""
                    THEN Append(r.slots, slot) ELSE r.slots]

\* the four directions, in the order __free_spots tries them; r carries the
\* generator and the slots collected so far
Right(r, x, y, tree) ==
    Direction(r, CheckRow(r.g, x + 1, y),
              CheckAndJoinRow(r.g, x, y, tree, 1), <<x + 1, y>>)

\* the direction -x tried from column 1 too
LeftFromEdge(r, x, y, tree) ==
    Direction(r, x > 0 /\ CheckRow(r.g, x - 1, y),
              CheckAndJoinRow(r.g, x, y, tree, -1), <<x - 1, y>>)

Left(r, x, y, tree) ==
    Direction(r, x > 1 /\ CheckRow(r.g, x - 1, y),
              CheckAndJoinRow(r.g, x, y, tree, -1), <<x - 1, y>>)

Down(r, x, y, tree) ==
    Direction(r, y + 2 < height /\ CheckCol(r.g, x, y + 1),
              CheckAndJoinCol(r.g, x, y, tree, 1), <<x, y + 1>>)

Up(r, x, y, tree) ==
    Direction(r, y > 1 /\ CheckCol(r.g, x, y - 1),
              CheckAndJoinCol(r.g, x, y, tree, -1), <<x, y - 1>>)

\* the entry set without the return: the directions +y and -y still run
LeftEdgeThenOthers(r, x, y, tree) ==
    IF r.g.raised # "" THEN r
    ELSE IF x <= 1 /\ EntryUnset(r.g) THEN
        Up(Down([g |-> [Activate(r.g, 0, y, tree) EXCEPT !.entry = <<0, y>>],
                 slots |-> r.slots], x, y, tree), x, y, tree)
    ELSE Up(Down(Left(r, x, y, tree), x, y, tree), x, y, tree)

\* __free_spots after the direction +x: on the left edge with no entry yet
\* the entry is set and no move is offered, else the other directions follow
LeftEdgeOrOthers(r, x, y, tree) ==
    IF r.g.raised # "" THEN r
    ELSE IF x <= 1 /\ EntryUnset(r.g) THEN
        [g |-> [Activate(r.g, 0, y, tree) EXCEPT !.entry = <<0, y>>],
         slots |-> <<>>]
    ELSE Up(Down(Left(r, x, y, tree), x, y, tree), x, y, tree)

\* __free_spots: the moves open to the position pos of tree; sets the exit
\* and the entry, and joins trees, on the way
FreeSpots(g, pos, tree) ==
    IF pos[1] + 2 = width THEN
        IF ExitUnset(g)
        THEN [g |-> [Activate(g, pos[1] + 1, pos[2], tree) EXCEPT
                        !.exit = <<pos[1] + 1, pos[2]>>],
              slots |-> <<>>]
        ELSE [g |-> g, slots |-> <<>>]
    ELSE LeftEdgeOrOthers(
             Right([g |-> g, slots |-> <<>>], pos[1], pos[2], tree),
             pos[1], pos[2], tree)

\* what random.sample returned (s), with the random states it left
Sampled(g, np, s) == [g |-> [g EXCEPT !.np = np, !.py = s.py], moves |-> s.out]

\* randint taken with an inclusive upper end, as random.randint has it
RandomSampleInclusive(g, moves, x) ==
    Sampled(g, x, Sample(moves, 1 + RandBelow(x, Len(moves)), g.py))

\* the RANDOM strategy on two moves or more: x is the draw of randint
RandomSample(g, moves, x) ==
    Sampled(g, x, Sample(moves, 1 + RandBelow(x, Len(moves) - 1), g.py))

\* __new_branches: the moves the branching strategy keeps
NewBranches(g, moves) ==
    IF strategy = "Random" THEN
        IF Len(moves) > 1 THEN RandomSample(g, moves, NextRandom(g.np))
        ELSE [g |-> g, moves |-> moves]
    ELSE IF strategy = "Partial" THEN
        Sampled(g, g.np,
                Sample(moves, IF Len(moves) < 2 THEN Len(moves) ELSE 2, g.py))
    ELSE [g |-> g, moves |-> moves]

\* the four cells orthogonally next to p
Neighbours(p) ==
    {<<p[1] - 1, p[2]>>, <<p[1] + 1, p[2]>>,
     <<p[1], p[2] - 1>>, <<p[1], p[2] + 1>>}

\* history: how many cells next to the cell c are occupied in g
Around(g, c) ==
    Cardinality({q \in Neighbours(c) \cap DOMAIN g.maze : g.maze[q] # 0})

RECURSIVE ActivateAll(_, _, _, _)
ActivateAll(g, moves, i, tree) ==
    IF i > Len(moves) THEN g
    ELSE ActivateAll(Activate(g, moves[i][1], moves[i][2], tree),
                     moves, i + 1, tree)

\* history of a processed position: what __free_spots did for it (f is
\* its result, g the generator before); the kept moves are filled in later
Seen(g, pos, tree, f) ==
    [g |-> [f.g EXCEPT
              !.steps = Append(@,
                  [tree |-> tree, pos |-> pos, slots |-> f.slots,
                   moves |-> <<>>,
                   exitSet |-> g.exit = None /\ f.g.exit # None,
                   entrySet |-> g.entry = None /\ f.g.entry # None,
                   joins |-> f.g.joins,
                   around |-> <<>>,
                   edge |-> IF g.exit = None /\ f.g.exit # None
                            THEN <<Around(f.g, f.g.exit)>>
                            ELSE IF g.entry = None /\ f.g.entry # None
                            THEN <<Around(f.g, f.g.entry)>>
                            ELSE <<>>,
                   raised |-> f.g.raised # ""]),
              !.joins = <<>>],
     slots |-> f.slots]

\* history: the moves kept for the position processed last
Chosen(g, moves) == [g EXCEPT !.steps[Len(g.steps)].moves = moves]

\* history: for each kept move, the occupied cells next to it at the moment
\* it is activated, g being the generator before the first activation
Lit(r, g, moves, tree) ==
    [r EXCEPT !.steps[Len(r.steps)].around =
        [i \in DOMAIN moves |->
            Around(ActivateAll(g, SubSeq(moves, 1, i - 1), 1, tree),
                   moves[i])]]

\* the loop of __branch_out: b holds the kept moves
Activated(b, tree) ==
    [g |-> Lit(Chosen(ActivateAll(b.g, b.moves, 1, tree), b.moves),
               b.g, b.moves, tree),
     moves |-> b.moves]

\* __branch_out after __free_spots returned f
Kept(f, tree) ==
    IF f.g.raised # "" THEN [g |-> f.g, moves |-> <<>>]
    ELSE Activated(NewBranches(f.g, f.slots), tree)

\* __branch_out: activate the kept moves around pos and return them
BranchOut(g, pos, tree) ==
    Kept(Seen(g, pos, tree, FreeSpots(g, pos, tree)), tree)

\* the position read and left in the list
PopKeeps(branches, i) == branches

\* branches.pop(i), 1-based
Pop(branches, i) ==
    [k \in 1..(Len(branches) - 1) |->
        IF k < i THEN branches[k] ELSE branches[k + 1]]

\* the inner loop of __build_iteration, from index i down to 1; Heads adds
\* what __branch_out returned (b) to the heads and goes on
RECURSIVE Branches(_, _, _, _)
RECURSIVE Heads(_, _, _, _)
Heads(b, tree, i, heads) == Branches(b.g, tree, i - 1, heads \o b.moves)

\* the position at index i, processed when the draw is below the rate
Drawn(g, x, tree, i, heads) ==
    IF ~BelowRate(x, rate)
    THEN Branches([g EXCEPT !.np = x], tree, i - 1, heads)
    ELSE Heads(BranchOut([g EXCEPT !.np = x, !.trees[tree] = Pop(@, i)],
                         g.trees[tree][i], tree),
               tree, i, heads)

Branches(g, tree, i, heads) ==
    IF g.raised # "" \/ i = 0 THEN [g |-> g, heads |-> heads]
    ELSE IF tree \notin DOMAIN g.trees \/ g.trees[tree] = <<>>
    THEN Branches(g, tree, i - 1, heads)
    ELSE Drawn(g, NextRandom(g.np), tree, i, heads)

\* history of a grown tree: its heads, the tree they went to and the
\* frontier map g.trees they left
Grown(g, tree, heads) ==
    [g EXCEPT !.grown = Append(@,
        [tree |-> tree, heads |-> heads, main |-> g.mappings[tree],
         trees |-> g.trees])]

\* the end of the loop body: the heads b.heads go to the tree that tree
\* maps to, which is deleted when it has no position left
AddHeads(b, tree) ==
    IF b.g.raised # "" THEN b.g
    ELSE IF b.g.mappings[tree] \notin DOMAIN b.g.trees
    THEN [b.g EXCEPT !.raised = "KeyError"]
    ELSE IF b.g.trees[b.g.mappings[tree]] \o b.heads = <<>>
    THEN Grown([b.g EXCEPT !.trees =
                   [k \in DOMAIN b.g.trees \ {b.g.mappings[tree]} |->
                       b.g.trees[k]]],
               tree, b.heads)
    ELSE Grown([b.g EXCEPT !.trees[b.g.mappings[tree]] = @ \o b.heads],
               tree, b.heads)

\* the body of the loop over the trees in __build_iteration
GrowTree(g, tree) ==
    IF tree \notin DOMAIN g.trees THEN [g EXCEPT !.raised = "KeyError"]
    ELSE AddHeads(Branches(g, tree, Len(g.trees[tree]), <<>>), tree)

\* the loop over the snapshot of the live trees, in the order of the dict
RECURSIVE GrowTrees(_, _, _)
GrowTrees(g, snapshot, tree) ==
    IF g.raised # "" \/ tree > Cardinality(DOMAIN g.mappings) THEN g
    ELSE IF tree \in snapshot
    THEN GrowTrees(GrowTree(g, tree), snapshot, tree + 1)
    ELSE GrowTrees(g, snapshot, tree + 1)

\* the loop run over every tree id ever made instead of the live trees
BuildIterationAllTrees(g) == GrowTrees(g, DOMAIN g.mappings, 1)

\* __build_iteration
BuildIteration(g) == GrowTrees(g, DOMAIN g.trees, 1)

Init ==
    \E run \in Runs :
        \E g \in {Construct(run[1][1], run[1][2], run[1][3], run[3])} :
            /\ width = run[1][1]
            /\ height = run[1][2]
            /\ strategy = run[2]
            /\ rate = IF run[1][4] < 1 THEN 1 ELSE run[1][4]
            /\ maze = g.maze
            /\ trees = g.trees
            /\ mappings = g.mappings
            /\ entry = None
            /\ exit = None
            /\ pyRandom = g.py
            /\ npRandom = run[4]
            /\ call = "__init__"
            /\ outcome = IF g.raised = "" THEN "constructed" ELSE g.raised
            /\ iterations = 0
            /\ errors = 0
            /\ frames = 0
            /\ saved = FALSE
            /\ steps = <<>>
            /\ grown = <<>>
            /\ consumed = {}

-----------------------------------------------------------------------------
(* The calls                                                               *)

\* the generator as a call finds it
Self ==
    [maze |-> maze, trees |-> trees, mappings |-> mappings, entry |-> entry,
     exit |-> exit, py |-> pyRandom, np |-> npRandom, raised |-> "",
     steps |-> <<>>, joins |-> <<>>, grown |-> <<>>]

Constructed == outcome # "ValueError"

Complete == DOMAIN trees = {}

Store(g) ==
    /\ maze' = g.maze
    /\ trees' = g.trees
    /\ mappings' = g.mappings
    /\ entry' = g.entry
    /\ exit' = g.exit
    /\ pyRandom' = g.py
    /\ npRandom' = g.np
    /\ steps' = g.steps
    /\ grown' = g.grown
    /\ consumed' = consumed \cup {g.steps[i].pos : i \in DOMAIN g.steps}
    /\ UNCHANGED <<width, height, strategy, rate>>

\* the indices __free_spots may read around the position p, entrySet telling
\* whether the entry is set when it runs: none next to the right edge, where
\* it returns at once; else the rows of 3 one and two cells away in +x; in
\* -x too when x > 1; nothing more when x <= 1 and the entry is not set,
\* where it returns; then the columns of 3 in +y and -y, each under the
\* guard of its direction
WindowsRead(p, entrySet) ==
    LET row(cx) == {<<cx, p[2] + i>> : i \in {-1, 0, 1}}
        col(cy) == {<<p[1] + i, cy>> : i \in {-1, 0, 1}}
        cols == (IF p[2] + 2 < height
                 THEN col(p[2] + 1) \cup col(p[2] + 2) ELSE {})
                \cup (IF p[2] > 1
                      THEN col(p[2] - 1) \cup col(p[2] - 2) ELSE {})
    IN  IF p[1] + 2 = width THEN {}
        ELSE row(p[1] + 1) \cup row(p[1] + 2)
             \cup (IF p[1] > 1 THEN row(p[1] - 1) \cup row(p[1] - 2) \cup cols
                   ELSE IF entrySet THEN cols ELSE {})

\* expand(): one iteration, True when no tree is left
Expand ==
    /\ Constructed
    /\ iterations <= width * height
    /\ \E g \in {BuildIteration(Self)} :
           /\ Store(g)
           /\ call' = "expand"
           /\ outcome' = IF g.raised # "" THEN g.raised
                         ELSE IF DOMAIN g.trees = {} THEN "True" ELSE "False"
           /\ errors' = IF g.raised # "" THEN errors + 1 ELSE errors
           /\ iterations' = IF Complete THEN iterations ELSE iterations + 1
           /\ frames' = 0
           /\ saved' = FALSE

\* the loop of build(): iterate while a tree is left
RECURSIVE BuildLoop(_, _)
BuildLoop(g, n) ==
    IF \/ g.raised # ""
       \/ DOMAIN g.trees = {}
       \/ n > width * height
       \/ n >= iterations + MaxBuildIterations
    THEN [g |-> g, n |-> n]
    ELSE BuildLoop(BuildIteration(g), n + 1)

\* build(): explored when it ends within the iterations explored
Build ==
    /\ Constructed
    /\ \E b \in {BuildLoop(Self, iterations)} :
           /\ b.g.raised # "" \/ DOMAIN b.g.trees = {}
           /\ Store(b.g)
           /\ call' = "build"
           /\ outcome' = IF b.g.raised # "" THEN b.g.raised ELSE "None"
           /\ errors' = IF b.g.raised # "" THEN errors + 1 ELSE errors
           /\ iterations' = b.n
           /\ frames' = 0
           /\ saved' = FALSE

\* what imageio.mimsave(path, images) may do: return, or raise (a path that
\* cannot be written, no image to write); it is not reached after a raise
MimSave(g) == IF g.raised # "" THEN {FALSE} ELSE {TRUE, FALSE}

\* build_and_animate(): the loop of build() with an image taken after each
\* iteration that returns, then the images saved; the images read the
\* generator and change nothing of it
BuildAndAnimate ==
    /\ Constructed
    /\ \E b \in {BuildLoop(Self, iterations)} :
           /\ b.g.raised # "" \/ DOMAIN b.g.trees = {}
           /\ Store(b.g)
           /\ call' = "build_and_animate"
           /\ frames' = IF b.g.raised # "" THEN b.n - iterations - 1
                         ELSE b.n - iterations
           /\ \E ok \in MimSave(b.g) :
                  /\ saved' = ok
                  /\ outcome' = IF b.g.raised # "" THEN b.g.raised
                                ELSE IF ok THEN "None" ELSE "SaveError"
           /\ errors' = IF b.g.raised # "" THEN errors + 1 ELSE errors
           /\ iterations' = b.n

Next == Expand \/ Build \/ BuildAndAnimate

Spec == Init /\ [][Next]_vars

-----------------------------------------------------------------------------
(* Vocabulary of the properties                                            *)

NumTrees == Cardinality(DOMAIN mappings)

Cells == DOMAIN maze

OccupiedCells == {p \in Cells : maze[p] # 0}

\* the canonical tree id an occupied cell resolves to
Canonical(p) == mappings[maze[p]]

Adjacent(p, q) ==
    \/ p[1] = q[1] /\ (p[2] = q[2] + 1 \/ q[2] = p[2] + 1)
    \/ p[2] = q[2] /\ (p[1] = q[1] + 1 \/ q[1] = p[1] + 1)

\* the occupied cells joined to the cells of `reached` by occupied paths
RECURSIVE Flood(_)
Flood(reached) ==
    LET more == {p \in OccupiedCells \ reached :
                    \E q \in reached : Adjacent(p, q)}
    IN  IF more = {} THEN reached ELSE Flood(reached \cup more)

-----------------------------------------------------------------------------
(* C1: termination                                                         *)

\* C1: for every valid configuration, repeated expand() returns True
\* within at most width*height iterations.  (iterations counts the
\* iterations started with a live tree, so a value above width*height
\* means width*height calls went by without one returning True.)
C1_TerminatesWithinGrid == iterations <= width * height

-----------------------------------------------------------------------------
(* C2: no runtime failure after construction                               *)

\* C2: once construction has succeeded, no call of expand() or build()
\* raises: every lookup of a tree id in the frontier map finds its key.
C2_NoRuntimeFailure ==
    Constructed /\ call \in {"expand", "build"} => outcome # "KeyError"

-----------------------------------------------------------------------------
(* C3: monotonic occupancy                                                 *)

\* C3: a cell that is occupied stays occupied in every later state, so the
\* number of occupied cells never decreases.
C3_MonotonicOccupancy ==
    [][\A p \in Cells : maze[p] # 0 => maze'[p] # 0]_vars

\* growth has happened: more cells are occupied than the seeds painted,
\* and a join has overwritten cells (the two trees resolve to one id)
C3_Witness ==
    /\ iterations > 0
    /\ Cardinality(OccupiedCells) > 5 * NumTrees
    /\ \E i \in DOMAIN mappings : mappings[i] # i

-----------------------------------------------------------------------------
(* C4: single entry and exit                                               *)

EntryExitPlaced ==
    /\ entry # None => entry[1] = 0 /\ maze[entry] # 0
    /\ exit # None => exit[1] = width - 1 /\ maze[exit] # 0

EntryExitKept ==
    /\ entry # None => entry' = entry
    /\ exit # None => exit' = exit

\* C4: entry and exit are each assigned at most once over a run (once set,
\* the value never changes); a set entry has x = 0, a set exit has
\* x = width-1, and the cell they name is occupied from then on.
C4_SingleEntryExit == []EntryExitPlaced /\ [][EntryExitKept]_vars

\* both are set and the run goes on with a frontier position of another
\* row on the column next to the right edge, where the exit guard decides
C4_Witness ==
    /\ entry # None
    /\ exit # None
    /\ \E k \in DOMAIN trees : \E i \in DOMAIN trees[k] :
          trees[k][i][1] + 2 = width /\ trees[k][i][2] # exit[2]

-----------------------------------------------------------------------------
(* C5: merge closure                                                       *)

\* every id resolves in one step to an id that resolves to itself
ResolvesToCanonical ==
    \A i \in DOMAIN mappings : mappings[mappings[i]] = mappings[i]

\* ids that resolve to the same id keep doing so, and an id merged away
\* is never made canonical again
MergesKept ==
    /\ \A i, j \in DOMAIN mappings :
          mappings[i] = mappings[j] => mappings'[i] = mappings'[j]
    /\ \A i \in DOMAIN mappings : mappings[i] # i => mappings'[i] # i

\* C5: after tree A is merged into tree B, every id that resolved to A
\* resolves to B's current canonical id in every later state, also after B
\* is merged into a third tree, and no id is sent to a merged-away tree.
C5_MergeClosure == []ResolvesToCanonical /\ [][MergesKept]_vars

\* three trees joined into one, none of them by a failed call
C5_Witness ==
    /\ NumTrees = 3
    /\ errors = 0
    /\ \A i, j \in DOMAIN mappings : mappings[i] = mappings[j]

-----------------------------------------------------------------------------
(* C6: no illegal overlap                                                  *)

\* three consecutive cells of one row or one column, starting at p
Window(p) ==
    { {p, <<p[1] + 1, p[2]>>, <<p[1] + 2, p[2]>>} \cap Cells,
      {p, <<p[1], p[2] + 1>>, <<p[1], p[2] + 2>>} \cap Cells }

\* C6: between iterations, any two occupied cells that lie in the same
\* 3-cell window resolve through the partition to the same canonical id.
C6_NoIllegalOverlap ==
    Constructed =>
        \A p \in OccupiedCells : \A win \in Window(p) :
            \A q \in win \cap OccupiedCells : Canonical(q) = Canonical(p)

-----------------------------------------------------------------------------
(* C7: completion is stable                                                *)

\* C7: once the live-tree set is empty, every further expand() returns True
\* and leaves grid, entry, exit, partition and frontier map unchanged.
C7_CompletionStable ==
    [][(Complete /\ Expand) =>
          /\ outcome' = "True"
          /\ UNCHANGED <<maze, entry, exit, mappings, trees>>]_vars

\* expand() has returned True on a grown maze whose trees joined
C7_Witness ==
    /\ Complete
    /\ outcome = "True"
    /\ iterations > 1
    /\ \E i \in DOMAIN mappings : mappings[i] # i

-----------------------------------------------------------------------------
(* C8: the single-tree scenario                                            *)

SingleTreeScenario ==
    /\ Constructed
    /\ width = 10
    /\ height = 10
    /\ NumTrees = 1
    /\ rate = 10
    /\ strategy = "Full"

\* the cluster of tree 1 has its centre at c
SeededAt(c) ==
    /\ maze[c] # 0
    /\ outcome = "constructed" =>
          trees[1] = << <<c[1] - 1, c[2]>>, c, <<c[1] + 1, c[2]>>,
                        <<c[1], c[2] - 1>>, <<c[1], c[2] + 1>> >>

\* the scenario run from a seed centred at c
ScenarioFrom(c) ==
    SingleTreeScenario =>
        /\ SeededAt(c)
        /\ iterations <= width * height
        /\ Complete =>
              /\ entry # None /\ entry[1] = 0
              /\ exit # None /\ exit[1] = 9
              /\ Flood({c}) = OccupiedCells

\* C8 as stated: 10x10, 1 tree seeded at (5,5), rate 1.0, FULL: build()
\* terminates with entry on x=0, exit on x=9 and every occupied cell
\* joined to the seed centre by orthogonally adjacent occupied cells.
C8_ScenarioSeededAtCentre == ScenarioFrom(<<5, 5>>)

\* C8, amended: the same with the seed at (2,2), the one centre the
\* constructor can choose on a 10x10 grid.
C8_SingleTreeScenario == ScenarioFrom(<<2, 2>>)

\* build() has returned in the scenario
C8_Witness == SingleTreeScenario /\ outcome = "None" /\ Complete

-----------------------------------------------------------------------------
(* C9: the two-tree scenario                                               *)

\* C9: on a 10x10 grid with 2 trees, rate 1.0, FULL, the generator can be
\* constructed and build() terminates with no live tree and at most 2
\* canonical ids (exactly 2 when no merge occurred).
C9_TwoTreeScenario ==
    (width = 10 /\ height = 10 /\ NumTrees = 2 /\ rate = 10
        /\ strategy = "Full") =>
        /\ Constructed
        /\ outcome = "None" =>
              /\ Complete
              /\ Cardinality({mappings[i] : i \in DOMAIN mappings}) <= 2
              /\ (\A i \in DOMAIN mappings : mappings[i] = i) =>
                    Cardinality({mappings[i] : i \in DOMAIN mappings}) = 2

-----------------------------------------------------------------------------
(* C10: construction failure                                               *)

\* How many clusters fit along d cells: a cluster spans 3 cells, keeps 2
\* free cells to the border and 2 to the next cluster, so each takes 5
\* cells of the d - 2 that remain.
SlotsAlong(d) == IF d < 7 THEN 0 ELSE (d - 2) \div 5

\* n pairwise non-overlapping seed clusters with those margins fit
ClustersFit(w, h, n) == n <= SlotsAlong(w) * SlotsAlong(h)

\* C10: construction fails, exposing no seeded grid, exactly when the grid
\* is too small for n_trees clusters; when they fit, it succeeds.
C10_FailsExactlyWhenTooSmall ==
    /\ ~Constructed <=> ~ClustersFit(width, height, NumTrees)
    /\ ~Constructed => OccupiedCells = {} /\ DOMAIN trees = {}

-----------------------------------------------------------------------------
(* C11: the state after construction                                       *)

\* the plus around the centre c: centre, left, right, above, below
Plus(c) ==
    {c, <<c[1] - 1, c[2]>>, <<c[1] + 1, c[2]>>,
        <<c[1], c[2] - 1>>, <<c[1], c[2] + 1>>}

\* the cells of a frontier list
Positions(frontier) == {frontier[i] : i \in DOMAIN frontier}

\* at least two cells lie between p and q along a row or a column
TwoApart(p, q) ==
    \/ p[1] - q[1] >= 3 \/ q[1] - p[1] >= 3
    \/ p[2] - q[2] >= 3 \/ q[2] - p[2] >= 3

\* C11: right after a successful construction with n trees exactly 5*n
\* cells are occupied; the five cells of tree i form a plus tagged i and
\* are its frontier; clusters of different trees share no cell and keep
\* two unoccupied cells between them; every id maps to itself; entry and
\* exit are unset.
C11_InitialState ==
    outcome = "constructed" =>
        /\ Cardinality(OccupiedCells) = 5 * NumTrees
        /\ DOMAIN trees = 1..NumTrees
        /\ \A i \in 1..NumTrees :
              /\ Len(trees[i]) = 5
              /\ \E c \in Cells : Positions(trees[i]) = Plus(c)
              /\ \A p \in Cells : maze[p] = i <=> p \in Positions(trees[i])
              /\ mappings[i] = i
        /\ \A p, q \in OccupiedCells : maze[p] # maze[q] => TwoApart(p, q)
        /\ entry = None
        /\ exit = None

\* three trees have just been seeded
C11_Witness == outcome = "constructed" /\ NumTrees = 3 /\ steps = <<>>

-----------------------------------------------------------------------------
(* C12, C13: the branching strategy                                        *)

\* the positions the last call processed without __free_spots raising
Processed == {i \in DOMAIN steps : ~steps[i].raised}

\* the moves kept at a step are picked from its candidate moves, each once
KeptFromSlots(s) ==
    /\ Len(s.slots) <= 4
    /\ Positions(s.moves) \subseteq Positions(s.slots)
    /\ Cardinality(Positions(s.moves)) = Len(s.moves)

\* what RANDOM keeps: all of at most one move, else 1 to |M| - 1 moves
RandomSize(s) ==
    IF Len(s.slots) <= 1 THEN Len(s.moves) = Len(s.slots)
    ELSE 1 <= Len(s.moves) /\ Len(s.moves) <= Len(s.slots) - 1

\* C12: the moves activated for a position with candidate moves M are a
\* duplicate-free subset of M of size |M| under FULL, min(|M|, 2) under
\* PARTIAL, and under RANDOM |M| when |M| <= 1, else 1 .. |M| - 1.
C12_StrategyFilter ==
    \A i \in Processed :
        /\ KeptFromSlots(steps[i])
        /\ strategy = "Full" => Len(steps[i].moves) = Len(steps[i].slots)
        /\ strategy = "Partial" =>
              Len(steps[i].moves) = IF Len(steps[i].slots) < 2
                                    THEN Len(steps[i].slots) ELSE 2
        /\ strategy = "Random" => RandomSize(steps[i])

\* RANDOM has kept two of three candidate moves
C12_Witness ==
    /\ strategy = "Random"
    /\ \E i \in Processed :
          Len(steps[i].slots) = 3 /\ Len(steps[i].moves) = 2

\* C13: a strategy value that is none of RANDOM, PARTIAL, FULL selects
\* moves as RANDOM does: of two candidate moves or more it keeps between 1
\* and |M| - 1, never all.
C13_UnknownStrategyIsRandom ==
    strategy = "Other" =>
        \A i \in Processed : KeptFromSlots(steps[i]) /\ RandomSize(steps[i])

-----------------------------------------------------------------------------
(* C14, C15: the frontier                                                  *)

\* the positions held in the frontier lists of the live trees
Frontier == UNION {Positions(trees[k]) : k \in DOMAIN trees}

\* C14: a position occurs at most once in the frontier lists of all the
\* trees together: never in two lists, never twice in one list.
C14_FrontierUnique ==
    \A a, b \in DOMAIN trees :
        \A i \in DOMAIN trees[a], j \in DOMAIN trees[b] :
            trees[a][i] = trees[b][j] => a = b /\ i = j

\* a merge has appended a frontier of two positions or more to another of
\* two or more
C14_Witness ==
    /\ outcome = "False"
    /\ \E i \in DOMAIN steps : \E j \in DOMAIN steps[i].joins :
          LET jn == steps[i].joins[j]
          IN  /\ jn.tree \in DOMAIN jn.before.trees
              /\ jn.main \in DOMAIN jn.before.trees
              /\ Len(jn.before.trees[jn.tree]) >= 2
              /\ Len(jn.before.trees[jn.main]) >= 2

\* the positions processed by the call that led to the state
Selected == {steps[i].pos : i \in DOMAIN steps}

\* C15: a position processed in a call has left the frontier and no
\* processed position is ever in a frontier again; a cell that enters a
\* frontier was unoccupied before the call; a position not processed is
\* still in a frontier, that of the tree its tree now resolves to.
C15_BranchesOnce ==
    [][/\ Frontier' \cap consumed' = {}
       /\ \A p \in Frontier' \ Frontier : maze[p] = 0
       /\ \A k \in DOMAIN trees : \A p \in Positions(trees[k]) :
             IF p \in Selected' THEN p \notin Frontier'
             ELSE /\ p \in Frontier'
                  /\ outcome' \in {"True", "False", "None"} =>
                        /\ mappings'[k] \in DOMAIN trees'
                        /\ p \in Positions(trees'[mappings'[k]])]_vars

\* a first iteration below the full rate has processed some of the seed
\* cells and left the others in the frontier
C15_Witness ==
    /\ outcome = "False"
    /\ iterations = 1
    /\ steps # <<>>
    /\ Len(steps) < 5 * NumTrees
    /\ Frontier # {}

-----------------------------------------------------------------------------
(* C16, C17: merging and bridging                                          *)

\* the collisions of the last call: the current tree has found a cell of
\* another tree in a window two cells ahead
Joins ==
    UNION {{steps[i].joins[j] : j \in DOMAIN steps[i].joins} :
              i \in DOMAIN steps}

\* a collision of a live tree
MergesOf(jn) == jn.tree \in DOMAIN jn.before.trees

\* C16: when the current tree A collides with a cell of another canonical
\* tree B, B is live; afterwards A is not live, the frontier of B is its
\* previous frontier followed by the remaining frontier of A, every id that
\* mapped to A maps to B, and the new frontier cells of A in the iteration
\* are in the frontier of B.
C16_MergeStep ==
    /\ \A jn \in Joins : MergesOf(jn) =>
          /\ jn.main \in DOMAIN jn.before.trees
          /\ jn.tree \notin DOMAIN jn.after.trees
          /\ jn.after.trees[jn.main] =
                jn.before.trees[jn.main] \o jn.before.trees[jn.tree]
          /\ \A k \in DOMAIN jn.before.mappings :
                (k = jn.tree \/ jn.before.mappings[k] = jn.tree) =>
                    jn.after.mappings[k] = jn.main
    /\ \A i \in DOMAIN grown : grown[i].heads # <<>> =>
          /\ grown[i].main \in DOMAIN grown[i].trees
          /\ Positions(grown[i].heads) \subseteq
                Positions(grown[i].trees[grown[i].main])

\* C17: the bridge cells are activated only when the occupied cell found
\* two cells ahead resolves to another canonical tree than that of the tree
\* being processed, and then the two canonical trees are merged: the
\* processed tree and what it resolved to both resolve to the found tree.
C17_BridgeOnlyBetweenTrees ==
    \A jn \in Joins :
        /\ jn.main # jn.before.mappings[jn.tree]
        /\ jn.after.mappings[jn.tree] = jn.main
        /\ jn.after.mappings[jn.before.mappings[jn.tree]] = jn.main

-----------------------------------------------------------------------------
(* C18: the edges before the merges                                        *)

\* C18: a position whose processing sets the exit or the entry merges no
\* tree, activates no bridge cells and adds no cell to the frontier.
C18_EdgePrecedence ==
    \A i \in DOMAIN steps : (steps[i].exitSet \/ steps[i].entrySet) =>
        /\ steps[i].joins = <<>>
        /\ steps[i].slots = <<>>
        /\ steps[i].moves = <<>>
        /\ ~steps[i].raised

\* one call has set the entry at a position and the exit at another, in a
\* maze of several trees
C18_Witness ==
    /\ NumTrees >= 2
    /\ \E i, j \in DOMAIN steps :
          /\ steps[i].entrySet /\ steps[i].pos[1] = 1
          /\ steps[j].exitSet /\ steps[j].pos[1] + 2 = width

-----------------------------------------------------------------------------
(* C19: connectivity                                                       *)

\* the occupied cells that resolve to the canonical id t
TreeCells(t) == {p \in OccupiedCells : Canonical(p) = t}

\* the cells of `cells` joined to those of `reached` by paths inside
\* `cells`; `edge` are the cells reached last
RECURSIVE Spread(_, _, _)
Spread(cells, reached, edge) ==
    LET more == (UNION {Neighbours(q) : q \in edge} \cap cells) \ reached
    IN  IF more = {} THEN reached
        ELSE Spread(cells, reached \cup more, more)

FromCell(cells, c) == Spread(cells, {c}, {c}) = cells

Connected(cells) == cells = {} \/ FromCell(cells, CHOOSE c \in cells : TRUE)

\* C19: between iterations, the occupied cells that resolve to one
\* canonical tree id are connected under orthogonal adjacency.
C19_TreesConnected ==
    Constructed =>
        \A t \in {mappings[k] : k \in DOMAIN mappings} :
            Connected(TreeCells(t))

-----------------------------------------------------------------------------
(* C20: positions inside the grid                                          *)

\* C20: every position ever held in a frontier has 1 <= x <= width - 2 and
\* 1 <= y <= height - 2, and every index the windows around it may read is
\* inside the grid: none negative, none past the end.
C20_FrontierInside ==
    \A p \in Frontier \cup consumed :
        /\ 1 <= p[1] /\ p[1] <= width - 2
        /\ 1 <= p[2] /\ p[2] <= height - 2
        /\ \A entrySet \in BOOLEAN : WindowsRead(p, entrySet) \subseteq Cells

\* positions next to each of the four edges have been processed
C20_Witness ==
    /\ \E p \in consumed : p[1] = 1
    /\ \E p \in consumed : p[1] = width - 2
    /\ \E p \in consumed : p[2] = 1
    /\ \E p \in consumed : p[2] = height - 2

-----------------------------------------------------------------------------
(* C21: no cycle without a merge                                           *)

\* no tree has merged so far: every id resolves to itself
NoMerge == \A k \in DOMAIN mappings : mappings[k] = k

\* the pairs of occupied cells next to each other, each pair once
Edges ==
    {pq \in OccupiedCells \X OccupiedCells :
        \/ pq[2] = <<pq[1][1] + 1, pq[1][2]>>
        \/ pq[2] = <<pq[1][1], pq[1][2] + 1>>}

\* the number of connected pieces of a set of cells
RECURSIVE Pieces(_)
PiecesFrom(cells, c) == 1 + Pieces(cells \ Spread(cells, {c}, {c}))

Pieces(cells) ==
    IF cells = {} THEN 0 ELSE PiecesFrom(cells, CHOOSE c \in cells : TRUE)

\* a graph is a forest when it has as many edges as cells less pieces
Acyclic == Cardinality(Edges) = Cardinality(OccupiedCells) - Pieces(OccupiedCells)

\* C21: in a run without a merge the occupied cells have no cycle under
\* orthogonal adjacency between iterations, and every cell activated as a
\* new frontier cell, as the entry or as the exit had exactly one occupied
\* cell next to it at the moment it was activated.
C21_NoCycleWithoutMerge ==
    (Constructed /\ NoMerge) =>
        /\ Acyclic
        /\ \A i \in DOMAIN steps :
              /\ \A j \in DOMAIN steps[i].around : steps[i].around[j] = 1
              /\ \A j \in DOMAIN steps[i].edge : steps[i].edge[j] = 1

\* a build without a merge has ended: entry and exit were activated and a
\* position has activated two new frontier cells or more
C21_Witness ==
    /\ outcome = "None"
    /\ NoMerge
    /\ \E i \in DOMAIN steps : steps[i].entrySet /\ Len(steps[i].edge) = 1
    /\ \E i \in DOMAIN steps : steps[i].exitSet /\ Len(steps[i].edge) = 1
    /\ \E i \in DOMAIN steps : Len(steps[i].around) >= 2

====
